---- MODULE Spec2Model ----
(***************************************************************************)
(* Registration and payment-verification workflow of EMS_Server.           *)
(*                                                                         *)
(* The store is a document database reached through Mongoose.  A handler   *)
(* runs until its next `await`; every await on the store is one step and   *)
(* other requests run between the steps.  What a handler does between two  *)
(* store accesses without touching the store (rendering a QR image, the    *)
(* blob-store upload, sending a mail, answering) belongs to the step of    *)
(* the store access before it.  A handler works on the copies it read:     *)
(* `doc.save()` of a new document inserts it, and of a loaded document     *)
(* writes back the paths the handler changed (a $set of the local values). *)
(***************************************************************************)
EXTENDS Integers, Sequences, FiniteSets, TLC

\* ------------------------------------------------------------------ bounds
MaxReqs == 2        \* requests served in one behaviour
SeatLimit == 1      \* the seatLimit the two events were created with

\* ------------------------------------------------------------ input domains
Events == {"e1", "e2"}                 \* e1 is a free event, e2 a paid one
Emails == {<<"a">>, <<"A">>, <<"b">>}  \* e-mail addresses, as character strings
Refs == {"r1", "r2"}                   \* payment references a client may send
Slots == 1..MaxReqs

\* --------------------------------------------------------- string helpers
\* String.prototype.toLowerCase, per character
LowerChar(c) == IF c = "A" THEN "a" ELSE IF c = "B" THEN "b" ELSE c

ToLowerCase(s) == [i \in DOMAIN s |-> LowerChar(s[i])]

RECURSIVE TrimLeft(_)
TrimLeft(s) == IF s # <<>> /\ Head(s) = " " THEN TrimLeft(Tail(s)) ELSE s

RECURSIVE TrimRight(_)
TrimRight(s) ==
  IF s # <<>> /\ s[Len(s)] = " " THEN TrimRight(SubSeq(s, 1, Len(s) - 1)) ELSE s

\* String.prototype.trim
Trim(s) == TrimRight(TrimLeft(s))

\* ----------------------------------------------------------- custom fields
\* names of custom fields, as character strings
Keys == {<<"k">>, <<"c", ".", "k">>}

\* answers: a value, or JSON null
Vals == {"v", "null"}

\* a key-value map is the set of its entries
FieldMaps ==
  {m \in SUBSET [k : Keys, v : Vals] : \A x, y \in m : x.k = y.k => x = y}

\* customFieldValues as a request carries it: nothing, an object, a string
\* that is the JSON text of an object, a string that is no JSON, an array
NoFields == [shape |-> "absent", map |-> {}]

Payloads ==
  {NoFields, [shape |-> "badjson", map |-> {}], [shape |-> "array", map |-> {}]}
    \cup {[shape |-> sh, map |-> m] : sh \in {"object", "json"}, m \in FieldMaps}

\* typeof x === "string": JSON.parse(x), {} when it throws
ParseFields(cf) ==
  IF cf.shape = "json" THEN [shape |-> "object", map |-> cf.map]
  ELSE IF cf.shape = "badjson" THEN [shape |-> "object", map |-> {}]
  ELSE cf

\* if (value !== null && value !== undefined) map.set(key, value)
NonNull(m) == {x \in m : x.v # "null"}

\* the Map registerForEvent builds; nothing is assigned when
\* customFieldValues is not sent
RegisterFields(cf) ==
  IF cf.shape = "absent" THEN {}
  ELSE IF ParseFields(cf).shape = "object" THEN NonNull(ParseFields(cf).map)
  ELSE {}

\* customFieldsMap.set("Note", "Custom field values format not recognized")
FormatNote == {[k |-> <<"N", "o", "t", "e">>, v |-> "not recognized"]}

\* the Map POST /verify-payment builds from registrationData.customFieldValues
\* || {}
ProofFields(cf) ==
  LET c == IF cf.shape = "absent" THEN [shape |-> "object", map |-> {}]
           ELSE ParseFields(cf)
  IN IF c.shape = "object" THEN NonNull(c.map) ELSE FormatNote

\* a key of the map contains "."
HasDottedKey(m) == \E x \in m : \E i \in DOMAIN x.k : x.k[i] = "."

\* what saving a Map with such a key does depends on the Mongoose of the
\* deployment: the entry is stored, or the save is rejected
SaveOutcomes(m) == IF HasDottedKey(m) THEN {"kept", "thrown"} ELSE {"kept"}

\* map.get(key) / object[key]
Lookup(m, key) ==
  IF \E x \in m : x.k = key THEN (CHOOSE x \in m : x.k = key).v ELSE "undefined"

\* ------------------------------------------------------------------ state
VARIABLES
  events,    \* Event collection: id -> document
  regs,      \* Registration collection in insertion order; the index is _id
  procs,     \* the requests: position in the handler, locals, response
  uploads,   \* blob store: payment reference -> number of uploads made
  serial,    \* TRUE when the clients send a request only after the answer to
             \* the one before; never changes
  mailer     \* the mail service: "up", or "down" when sendEmail throws

vars == <<events, regs, procs, uploads, serial, mailer>>

\* Registration document with the schema defaults; customFieldsNull marks a
\* stored document whose customFieldValues is null and not a Map
NewRegistration(e, email, status, payId) ==
  [eventId |-> e, email |-> email, paymentStatus |-> status, paymentId |-> payId,
   paymentScreenshot |-> "", ticketId |-> 0, ticket |-> "",
   paymentVerified |-> FALSE, customFieldValues |-> {},
   customFieldsNull |-> FALSE]

NoDoc == NewRegistration("", <<>>, "", "")

\* Event document as createEvent builds it
NewEvent(seatLimit, isFree, fee) ==
  [seatLimit |-> seatLimit, registeredUsers |-> 0, isFree |-> isFree, fee |-> fee,
   customFields |-> <<>>]

NoEvent == NewEvent(0, TRUE, 0)

\* A request: its inputs (e, email, ref, verified), its position, its
\* locals (rid: _id of the document it works on, 0 for one not yet inserted;
\* doc and mod: the local copy and its modified paths; seen: the
\* registeredUsers it read; tid: newTicketId; mail: how its sendEmail call
\* ended) and its answer (resp, with the ticketId and registrationId it
\* carries, or the fee of the payment-required answer).  ev and evmod are the
\* local copy of an event that updateEvent changes, and its modified paths;
\* cf is the customFieldValues a request carries, field the custom field an
\* export column is for, rFields and rCell the custom field values and the
\* cell an answer carries.
IdleProc ==
  [kind |-> "idle", pc |-> "idle", e |-> "", email |-> <<>>, ref |-> "",
   verified |-> FALSE, rid |-> 0, doc |-> NoDoc, mod |-> {},
   seen |-> 0, tid |-> 0, mail |-> "", resp |-> "", rTicket |-> 0, rReg |-> 0,
   rFee |-> 0, ev |-> NoEvent, evmod |-> {}, cf |-> NoFields, field |-> <<>>,
   rFields |-> {}, rCell |-> ""]

InFlight(p) == procs[p].pc \notin {"idle", "done"}

\* A request arrives.  A slot is taken in order, so that behaviours differing
\* only in the names of the requests are explored once.
CanStart(p) ==
  /\ procs[p].pc = "idle"
  /\ p > 1 => procs[p - 1].pc # "idle"
  /\ serial => \A q \in Slots : ~InFlight(q)

\* ------------------------------------------------------------ store queries
RegIds == 1..Len(regs)

MaxOf(S) == CHOOSE m \in S : \A x \in S : x <= m

MinOf(S) == CHOOSE m \in S : \A x \in S : m <= x

\* Registration.findOne({ email, eventId }): _id of the first match, 0 if none
FindByEmailEvent(email, e) ==
  LET M == {i \in RegIds : regs[i].email = email /\ regs[i].eventId = e}
  IN IF M = {} THEN 0 ELSE MinOf(M)

\* Registration.findOne({ paymentId, email }): _id of the first match, 0 if none
FindByPaymentEmail(ref, email) ==
  LET M == {i \in RegIds : regs[i].paymentId = ref /\ regs[i].email = email}
  IN IF M = {} THEN 0 ELSE MinOf(M)

\* NextTicketId that counts the registrations of the event
NextTicketId_FromCount(e) ==
  Cardinality({j \in RegIds : regs[j].eventId = e}) + 1

\* Registration.findOne({ eventId }).sort({ ticketId: -1 }), then
\* lastTicket ? lastTicket.ticketId + 1 : 1
NextTicketId(e) ==
  LET T == {regs[i].ticketId : i \in {j \in RegIds : regs[j].eventId = e}}
  IN IF T = {} THEN 1 ELSE MaxOf(T) + 1

\* SaveDoc that writes the whole local copy back
SaveDoc_WholeCopy(stored, doc, mod) == doc

\* doc.save() of a loaded document: $set of the modified paths
SaveDoc(stored, doc, mod) ==
  [f \in DOMAIN stored |-> IF f \in mod THEN doc[f] ELSE stored[f]]

\* ------------------------------------------------------------------- Init
\* a free and a paid event as createEvent leaves them, no registration
InitStore ==
  /\ events = [e \in Events |->
       IF e = "e1"
       THEN [seatLimit |-> SeatLimit, registeredUsers |-> 0, isFree |-> TRUE,
             fee |-> 0, customFields |-> <<>>]
       ELSE [seatLimit |-> SeatLimit, registeredUsers |-> 0, isFree |-> FALSE,
             fee |-> 500, customFields |-> <<>>]]
  /\ regs = <<>>
  /\ procs = [p \in Slots |-> IdleProc]
  /\ uploads = [r \in Refs |-> 0]
  /\ mailer = "up"

Init == InitStore /\ serial = FALSE

InitSeq == InitStore /\ serial = TRUE

\* res.json(...) / res.status(...).json(...): the handler returns, its locals
\* are gone
Finish(proc, resp) ==
  [IdleProc EXCEPT !.kind = proc.kind, !.pc = "done", !.e = proc.e,
                   !.email = proc.email, !.ref = proc.ref,
                   !.verified = proc.verified,
                   !.rid = IF proc.kind = "verify" THEN proc.rid ELSE 0,
                   !.mail = proc.mail, !.cf = proc.cf, !.field = proc.field,
                   !.resp = resp]

\* the answer to a request that is turned down for what it carries (fields or
\* image missing, image not stored): nothing of it is kept
Refuse(kind, resp) == [IdleProc EXCEPT !.kind = kind, !.pc = "done", !.resp = resp]

\* an answer that carries a ticketId and a registrationId
FinishWith(proc, resp, ticket, reg) ==
  [Finish(proc, resp) EXCEPT !.rTicket = ticket, !.rReg = reg]

\* doc.path = value: Mongoose marks the path modified when the value changes
SetPath(proc, path, value) ==
  [proc EXCEPT !.doc = [proc.doc EXCEPT ![path] = value],
               !.mod = IF proc.doc[path] # value THEN proc.mod \cup {path}
                       ELSE proc.mod]

\* try { await sendEmail(event, mailOptions) } catch (emailError) { ... }:
\* the error of a mail that could not be sent is logged, the handler goes on
SendEmail(proc) ==
  [proc EXCEPT !.mail = IF mailer = "up" THEN "sent" ELSE "failed"]

\* ------------------------------------------------- register (free events)
\* RegisterStart that treats a paid event as a free one
RegisterStart_PaidAsFree(p, e, email) ==
  /\ CanStart(p)
  /\ LET ev == events[e]
         q == [IdleProc EXCEPT !.kind = "register", !.e = e, !.email = email,
                               !.seen = ev.registeredUsers]
     IN procs' = [procs EXCEPT ![p] =
          IF ev.seatLimit - ev.registeredUsers <= 0 THEN Finish(q, "full")
          ELSE [q EXCEPT !.pc = "dupcheck"]]
  /\ UNCHANGED <<events, regs, uploads, serial, mailer>>

\* registerForEvent up to the seat check: Event.findById, the paid-event
\* answer (isPaid, fee, eventName) and the remaining-seats test on the copy
\* just read
RegisterStartWith(p, e, email, cf) ==
  /\ CanStart(p)
  /\ LET ev == events[e]
         q == [IdleProc EXCEPT !.kind = "register", !.e = e, !.email = email,
                               !.seen = ev.registeredUsers, !.cf = cf]
     IN procs' = [procs EXCEPT ![p] =
          IF ~ev.isFree THEN [Finish(q, "paid") EXCEPT !.rFee = ev.fee]
          ELSE IF ev.seatLimit - ev.registeredUsers <= 0 THEN Finish(q, "full")
          ELSE [q EXCEPT !.pc = "dupcheck"]]
  /\ UNCHANGED <<events, regs, uploads, serial, mailer>>

\* a register request that carries no customFieldValues
RegisterStart(p, e, email) == RegisterStartWith(p, e, email, NoFields)

\* Registration.findOne({ email, eventId })
RegisterDupCheck(p) ==
  /\ procs[p].kind = "register" /\ procs[p].pc = "dupcheck"
  /\ LET q == procs[p]
     IN procs' = [procs EXCEPT ![p] =
          IF FindByEmailEvent(q.email, q.e) # 0 THEN Finish(q, "dup")
          ELSE [q EXCEPT !.pc = "ticket"]]
  /\ UNCHANGED <<events, regs, uploads, serial, mailer>>

\* the last ticket of the event is read, newTicketId computed
RegisterTicket(p) ==
  /\ procs[p].kind = "register" /\ procs[p].pc = "ticket"
  /\ LET q == procs[p]
     IN procs' = [procs EXCEPT ![p] =
          [q EXCEPT !.tid = NextTicketId(q.e), !.pc = "save"]]
  /\ UNCHANGED <<events, regs, uploads, serial, mailer>>

\* the document registerForEvent builds
RegisterDoc(e, email, tid) ==
  [NewRegistration(e, email, "completed", "") EXCEPT !.ticketId = tid, !.ticket = "qr"]

\* registration.customFieldValues = customFieldMap, await registration.save()
RegisterSave(p) ==
  /\ procs[p].kind = "register" /\ procs[p].pc = "save"
  /\ LET q == procs[p]
         doc == [RegisterDoc(q.e, q.email, q.tid)
                   EXCEPT !.customFieldValues = RegisterFields(q.cf)]
     IN \E outcome \in SaveOutcomes(doc.customFieldValues) :
          IF outcome = "thrown"
          THEN /\ procs' = [procs EXCEPT ![p] = Finish(q, "error")]
               /\ UNCHANGED regs
          ELSE /\ regs' = Append(regs, doc)
               /\ procs' = [procs EXCEPT ![p] =
                    [q EXCEPT !.rid = Len(regs) + 1, !.pc = "count"]]
  /\ UNCHANGED <<events, uploads, serial, mailer>>

\* RegisterCount without the increment
RegisterCount_NoIncrement(p) ==
  /\ procs[p].kind = "register" /\ procs[p].pc = "count"
  /\ LET q == procs[p]
     IN procs' = [procs EXCEPT ![p] =
          FinishWith(SendEmail(q), "ok", q.tid, q.rid)]
  /\ UNCHANGED <<events, regs, uploads, serial, mailer>>

\* event.registeredUsers += 1 on the copy read at the start, await
\* event.save(); then sendEmail and the success answer, whether or not the
\* mail went out
RegisterCount(p) ==
  /\ procs[p].kind = "register" /\ procs[p].pc = "count"
  /\ LET q == procs[p]
     IN /\ events' = [events EXCEPT ![q.e].registeredUsers = q.seen + 1]
        /\ procs' = [procs EXCEPT ![p] =
             FinishWith(SendEmail(q), "ok", q.tid, q.rid)]
  /\ UNCHANGED <<regs, uploads, serial, mailer>>

Register ==
  \E p \in Slots :
    \/ \E e \in Events, email \in Emails : RegisterStart(p, e, email)
    \/ RegisterDupCheck(p)
    \/ RegisterTicket(p)
    \/ RegisterSave(p)
    \/ RegisterCount(p)

\* ------------------------------------- createPendingPayment (paid, step 1)
\* POST /create-payment up to the seat check
CreatePaymentStart(p, e, email) ==
  /\ CanStart(p)
  /\ LET ev == events[e]
         q == [IdleProc EXCEPT !.kind = "create", !.e = e, !.email = email,
                               !.seen = ev.registeredUsers]
     IN procs' = [procs EXCEPT ![p] =
          IF ev.isFree THEN Finish(q, "free")
          ELSE IF ev.seatLimit - ev.registeredUsers <= 0 THEN Finish(q, "full")
          ELSE [q EXCEPT !.pc = "dupcheck"]]
  /\ UNCHANGED <<events, regs, uploads, serial, mailer>>

\* CreatePaymentAnswer without the test for an existing registration
CreatePaymentAnswer_NoLookup(p) ==
  /\ procs[p].kind = "create" /\ procs[p].pc = "dupcheck"
  /\ LET q == procs[p]
     IN \E ref \in Refs :
          procs' = [procs EXCEPT ![p] = Finish([q EXCEPT !.ref = ref], "ok")]
  /\ UNCHANGED <<events, regs, uploads, serial, mailer>>

\* Registration.findOne({ email, eventId }), then generateTransactionRef and
\* the payment details; registrationData goes back to the client, unsaved
CreatePaymentAnswer(p) ==
  /\ procs[p].kind = "create" /\ procs[p].pc = "dupcheck"
  /\ LET q == procs[p]
     IN \E ref \in Refs :
          procs' = [procs EXCEPT ![p] =
            IF FindByEmailEvent(q.email, q.e) # 0 THEN Finish(q, "dup")
            ELSE Finish([q EXCEPT !.ref = ref], "ok")]
  /\ UNCHANGED <<events, regs, uploads, serial, mailer>>

CreatePayment ==
  \E p \in Slots :
    \/ \E e \in Events, email \in Emails : CreatePaymentStart(p, e, email)
    \/ CreatePaymentAnswer(p)

\* ----------------------------------- submitPaymentProof (paid, step 2)
Shots == {"none", "bad", "img"}   \* no screenshot, not a data:image, an image

\* cloudinary.uploader.upload: a URL, or an exception
Uploads == {"stored", "failed"}

\* the document POST /verify-payment builds when it finds none
ProofDoc(e, email, ref) ==
  NewRegistration(e, Trim(ToLowerCase(email)), "pending", ref)

\* AfterUpload with the screenshot URL left out
AfterUpload_NoUrl(proc, url) ==
  SetPath(SetPath(proc, "paymentStatus", "pending"), "paymentVerified", FALSE)

\* what the handler sets on its copy once the upload returned a URL
AfterUpload(proc, url) ==
  SetPath(SetPath(SetPath(proc, "paymentScreenshot", url),
                  "paymentStatus", "pending"),
          "paymentVerified", FALSE)

\* POST /verify-payment: the required fields (a request without a screenshot
\* is refused on its fields alone), then
\* Registration.findOne({ paymentId: transactionRef, email }); the document
\* found, or a new one built from registrationData
\* the assignment of the Map is inside a try whose catch assigns new Map()
SubmitProofStartWith(p, ref, email, e, present, cf) ==
  /\ CanStart(p)
  /\ \E outcome \in SaveOutcomes(ProofFields(cf)) :
     LET q == [IdleProc EXCEPT !.kind = "submit", !.ref = ref, !.email = email,
                               !.e = e, !.cf = cf]
         found == FindByPaymentEmail(ref, email)
         fields == IF outcome = "thrown" THEN {} ELSE ProofFields(cf)
     IN procs' = [procs EXCEPT ![p] =
          IF ~present THEN Refuse("submit", "noshot")
          ELSE IF found = 0
            THEN [q EXCEPT !.doc = [ProofDoc(e, email, ref) EXCEPT
                                      !.customFieldValues = fields],
                           !.pc = "event"]
          ELSE IF regs[found].paymentStatus = "completed"
            THEN FinishWith(q, "verified", regs[found].ticketId, found)
          ELSE [q EXCEPT !.rid = found, !.doc = regs[found],
                         !.e = regs[found].eventId, !.pc = "event"]]
  /\ UNCHANGED <<events, regs, uploads, serial, mailer>>

\* a proof submission whose registrationData carries no customFieldValues
SubmitProofStart(p, ref, email, e, present) ==
  SubmitProofStartWith(p, ref, email, e, present, NoFields)

\* SubmitProofEvent that inserts the document before the upload is tried
SubmitProofEvent_SavedBeforeUpload(p, shot, outcome) ==
  /\ procs[p].kind = "submit" /\ procs[p].pc = "event"
  /\ LET q == procs[p]
         r == [q EXCEPT !.seen = events[q.e].registeredUsers]
     IN IF q.doc.paymentScreenshot # ""
        THEN /\ procs' = [procs EXCEPT ![p] =
                  FinishWith(q, "exists", q.doc.ticketId, q.rid)]
             /\ UNCHANGED <<uploads, regs>>
        ELSE IF shot # "img"
        THEN /\ procs' = [procs EXCEPT ![p] = Refuse("submit", "badshot")]
             /\ UNCHANGED <<uploads, regs>>
        ELSE IF outcome = "failed"
        THEN /\ procs' = [procs EXCEPT ![p] = Refuse("submit", "uploadfail")]
             /\ regs' = Append(regs, q.doc)
             /\ UNCHANGED uploads
        ELSE /\ uploads' = [uploads EXCEPT ![q.ref] = @ + 1]
             /\ procs' = [procs EXCEPT ![p] =
                  [AfterUpload(r, q.ref) EXCEPT
                     !.pc = IF q.doc.ticketId = 0 THEN "ticket" ELSE "save"]]
             /\ UNCHANGED regs
  /\ UNCHANGED <<events, serial, mailer>>

\* Event.findById(registration.eventId); the answer for a proof that is
\* already stored; else the format test (shot) and the upload (outcome), and
\* the paths set once the URL is there
SubmitProofEvent(p, shot, outcome) ==
  /\ procs[p].kind = "submit" /\ procs[p].pc = "event"
  /\ LET q == procs[p]
         r == [q EXCEPT !.seen = events[q.e].registeredUsers]
     IN IF q.doc.paymentScreenshot # ""
        THEN /\ procs' = [procs EXCEPT ![p] =
                  FinishWith(q, "exists", q.doc.ticketId, q.rid)]
             /\ UNCHANGED uploads
        ELSE IF shot # "img"
        THEN /\ procs' = [procs EXCEPT ![p] = Refuse("submit", "badshot")]
             /\ UNCHANGED uploads
        ELSE IF outcome = "failed"
        THEN /\ procs' = [procs EXCEPT ![p] = Refuse("submit", "uploadfail")]
             /\ UNCHANGED uploads
        ELSE /\ uploads' = [uploads EXCEPT ![q.ref] = @ + 1]
             /\ procs' = [procs EXCEPT ![p] =
                  [AfterUpload(r, q.ref) EXCEPT
                     !.pc = IF q.doc.ticketId = 0 THEN "ticket" ELSE "save"]]
  /\ UNCHANGED <<events, regs, serial, mailer>>

\* if (!registration.ticketId): the last ticket of the event is read
SubmitProofTicket(p) ==
  /\ procs[p].kind = "submit" /\ procs[p].pc = "ticket"
  /\ LET q == procs[p]
         t == NextTicketId(q.doc.eventId)
     IN procs' = [procs EXCEPT ![p] =
          [SetPath(q, "ticketId", t) EXCEPT !.tid = t, !.pc = "save"]]
  /\ UNCHANGED <<events, regs, uploads, serial, mailer>>

\* await registration.save(): an insert, or an update of the modified paths
SubmitProofSave(p) ==
  /\ procs[p].kind = "submit" /\ procs[p].pc = "save"
  /\ LET q == procs[p]
     IN IF q.rid = 0
        THEN /\ regs' = Append(regs, q.doc)
             /\ procs' = [procs EXCEPT ![p] =
                  [q EXCEPT !.rid = Len(regs) + 1, !.pc = "count"]]
        ELSE /\ regs' = [regs EXCEPT ![q.rid] = SaveDoc(regs[q.rid], q.doc, q.mod)]
             /\ procs' = [procs EXCEPT ![p] = [q EXCEPT !.pc = "count"]]
  /\ UNCHANGED <<events, uploads, serial, mailer>>

\* SubmitProofCount without the increment
SubmitProofCount_NoIncrement(p) ==
  /\ procs[p].kind = "submit" /\ procs[p].pc = "count"
  /\ LET q == procs[p]
     IN procs' = [procs EXCEPT ![p] =
          FinishWith(SendEmail(q), "ok", q.doc.ticketId, q.rid)]
  /\ UNCHANGED <<events, regs, uploads, serial, mailer>>

\* event.registeredUsers += 1 on the copy read before the upload, await
\* event.save(); then the "verification in progress" mail and the answer
SubmitProofCount(p) ==
  /\ procs[p].kind = "submit" /\ procs[p].pc = "count"
  /\ LET q == procs[p]
     IN /\ events' = [events EXCEPT ![q.e].registeredUsers = q.seen + 1]
        /\ procs' = [procs EXCEPT ![p] =
             FinishWith(SendEmail(q), "ok", q.doc.ticketId, q.rid)]
  /\ UNCHANGED <<regs, uploads, serial, mailer>>

SubmitProof ==
  \E p \in Slots :
    \/ \E ref \in Refs, email \in Emails, e \in Events, present \in BOOLEAN :
         SubmitProofStart(p, ref, email, e, present)
    \/ \E shot \in Shots \ {"none"}, outcome \in Uploads :
         SubmitProofEvent(p, shot, outcome)
    \/ SubmitProofTicket(p)
    \/ SubmitProofSave(p)
    \/ SubmitProofCount(p)

\* -------------------------------------------- verifyPayment (organizer)
\* AfterVerdict that records the verdict and leaves paymentStatus alone
AfterVerdict_StatusKept(proc, verified) ==
  SetPath(proc, "paymentVerified", verified)

\* what verifyPayment sets on its copy before any further read
AfterVerdict(proc, verified) ==
  IF verified
  THEN SetPath(SetPath(proc, "paymentVerified", TRUE), "paymentStatus", "completed")
  ELSE SetPath(proc, "paymentVerified", FALSE)

\* VerifyPaymentStart that issues a ticket whatever the verdict is
VerifyPaymentStart_AlwaysIssue(p, id, verified) ==
  /\ CanStart(p)
  /\ LET q == [IdleProc EXCEPT !.kind = "verify", !.rid = id, !.verified = verified]
     IN procs' = [procs EXCEPT ![p] =
          IF id \notin RegIds THEN Finish(q, "notfound")
          ELSE [AfterVerdict([q EXCEPT !.doc = regs[id], !.e = regs[id].eventId],
                             verified)
                  EXCEPT !.pc = "issue"]]
  /\ UNCHANGED <<events, regs, uploads, serial, mailer>>

\* Registration.findById(registrationId) and the verdict
VerifyPaymentStart(p, id, verified) ==
  /\ CanStart(p)
  /\ LET q == [IdleProc EXCEPT !.kind = "verify", !.rid = id, !.verified = verified]
     IN procs' = [procs EXCEPT ![p] =
          IF id \notin RegIds THEN Finish(q, "notfound")
          ELSE [AfterVerdict([q EXCEPT !.doc = regs[id], !.e = regs[id].eventId],
                             verified)
                  EXCEPT !.pc = IF verified THEN "issue" ELSE "save"]]
  /\ UNCHANGED <<events, regs, uploads, serial, mailer>>

\* RenderTicket that renders nothing
RenderTicket_Skipped(proc) == proc

\* if (!registration.ticket): the QR image is rendered
RenderTicket(proc) ==
  IF proc.doc.ticket = "" THEN SetPath(proc, "ticket", "qr") ELSE proc

\* VerifyPaymentIssue whose mail error is not caught: the handler answers 500
\* before its save
VerifyPaymentIssue_MailAborts(p) ==
  /\ procs[p].kind = "verify" /\ procs[p].pc = "issue"
  /\ LET q == procs[p]
         t == IF q.doc.ticketId = 0 THEN NextTicketId(q.doc.eventId)
              ELSE q.doc.ticketId
     IN procs' = [procs EXCEPT ![p] =
          IF mailer = "up"
          THEN [SendEmail(RenderTicket(SetPath(q, "ticketId", t)))
                  EXCEPT !.tid = t, !.pc = "save"]
          ELSE Finish(SendEmail(q), "error")]
  /\ UNCHANGED <<events, regs, uploads, serial, mailer>>

\* verified: a ticket number when the copy has none (the last ticket of the
\* event is read), a QR image when the copy has none, the confirmation mail
VerifyPaymentIssue(p) ==
  /\ procs[p].kind = "verify" /\ procs[p].pc = "issue"
  /\ LET q == procs[p]
         t == IF q.doc.ticketId = 0 THEN NextTicketId(q.doc.eventId)
              ELSE q.doc.ticketId
     IN procs' = [procs EXCEPT ![p] =
          [SendEmail(RenderTicket(SetPath(q, "ticketId", t)))
             EXCEPT !.tid = t, !.pc = "save"]]
  /\ UNCHANGED <<events, regs, uploads, serial, mailer>>

\* await registration.save() and the answer
VerifyPaymentSave(p) ==
  /\ procs[p].kind = "verify" /\ procs[p].pc = "save"
  /\ LET q == procs[p]
     IN /\ regs' = [regs EXCEPT ![q.rid] = SaveDoc(regs[q.rid], q.doc, q.mod)]
        /\ procs' = [procs EXCEPT ![p] = FinishWith(q, "ok", q.doc.ticketId, q.rid)]
  /\ UNCHANGED <<events, uploads, serial, mailer>>

VerifyPayment ==
  \E p \in Slots :
    \/ \E id \in 1..(Len(regs) + 1), verified \in BOOLEAN :
         VerifyPaymentStart(p, id, verified)
    \/ VerifyPaymentIssue(p)
    \/ VerifyPaymentSave(p)

\* ------------------------------------------- createTestRegistration
\* POST /api/test/create-pending-registration: a pending registration with a
\* sample screenshot and no ticket, saved without any check
TestDoc(e, email) ==
  [NewRegistration(e, email, "pending", "TEST") EXCEPT !.paymentScreenshot = "sample"]

CreateTestRegistration(p, e, email) ==
  /\ CanStart(p)
  /\ regs' = Append(regs, TestDoc(e, email))
  /\ procs' = [procs EXCEPT ![p] =
       FinishWith([IdleProc EXCEPT !.kind = "test", !.e = e, !.email = email],
                  "ok", 0, Len(regs) + 1)]
  /\ UNCHANGED <<events, uploads, serial, mailer>>

TestRegistration ==
  \E p \in Slots, e \in Events, email \in Emails : CreateTestRegistration(p, e, email)

\* ---------------------------------------------------------- specifications
\* the four operations of the registration state machine
Next == Register \/ CreatePayment \/ SubmitProof \/ VerifyPayment

Spec == Init /\ [][Next]_vars

\* the same with the test endpoint, which leaves ticketless registrations
NextAll == Next \/ TestRegistration

SpecAll == Init /\ [][NextAll]_vars

\* the four operations, one request at a time
SpecSeq == InitSeq /\ [][Next]_vars

\* the same with the test endpoint
SpecSeqAll == InitSeq /\ [][NextAll]_vars

\* a store in which the test endpoint has left a ticketless registration
InitTest ==
  /\ InitStore!1 /\ InitStore!3 /\ InitStore!4 /\ InitStore!5
  /\ regs = <<TestDoc("e2", <<"a">>)>>
  /\ serial = FALSE

\* the four operations on that store
SpecTest == InitTest /\ [][Next]_vars

\* ------------------------------------------------- createEvent, updateEvent
\* what a client sends as isFree: true, false, or nothing
Flags == {"true", "false", "undefined"}

\* what a client sends as fee; 0 also stands for a fee that is not sent
Fees == {-5, 0, 300, 500}

\* what a client sends as seatLimit; 0 also stands for one that is not sent
SeatLimits == 0..(SeatLimit + 1)

\* the _id of the next event
NextEventId == CHOOSE e \in Events \ DOMAIN events :
                 \A x \in Events \ DOMAIN events : x = e \/ e = "e1"

\* isFree === false && (!fee || fee <= 0)
FeeMissing(isFree, fee) == isFree = "false" /\ (fee = 0 \/ fee <= 0)

\* the names a client sends for custom fields; <<>> is a name that is
\* missing or empty
FieldNames == Keys \cup {<<>>}

\* a custom field as createEvent and updateEvent keep it
TextField(name) == [fieldName |-> name, fieldType |-> "text", options |-> <<>>]

\* lists of custom fields a client sends
FieldLists == {<<>>} \cup {<<TextField(a)>> : a \in FieldNames}
                \cup {<<TextField(a), TextField(b)>> : a, b \in FieldNames}

\* customFields as a request carries it: nothing, an array, something else
NoSchema == [sent |-> "undefined", list |-> <<>>]

SchemaInputs ==
  {NoSchema, [sent |-> "other", list |-> <<>>]}
    \cup {[sent |-> "array", list |-> l] : l \in FieldLists}

\* if (!field.fieldName) throw new Error("All custom fields must have a name")
NamelessField(list) == \E i \in DOMAIN list : list[i].fieldName = <<>>

\* createEvent: the required fields, the fee of a paid event, the custom
\* fields, then new Event({...}) and await newEvent.save()
CreateEventWith(p, seatLimit, isFree, fee, customFields) ==
  /\ CanStart(p)
  /\ DOMAIN events # Events
  /\ LET q == [IdleProc EXCEPT !.kind = "createEvent"]
         id == NextEventId
         validatedCustomFields ==
           IF customFields.sent = "array" THEN customFields.list ELSE <<>>
         doc == [NewEvent(seatLimit, isFree # "false",
                          IF isFree = "false" THEN fee ELSE 0)
                   EXCEPT !.customFields = validatedCustomFields]
     IN IF seatLimit = 0
        THEN /\ procs' = [procs EXCEPT ![p] = Finish(q, "invalid")]
             /\ UNCHANGED events
        ELSE IF FeeMissing(isFree, fee)
        THEN /\ procs' = [procs EXCEPT ![p] = Finish(q, "nofee")]
             /\ UNCHANGED events
        ELSE IF NamelessField(validatedCustomFields)
        THEN /\ procs' = [procs EXCEPT ![p] = Finish(q, "error")]
             /\ UNCHANGED events
        ELSE /\ events' = [e \in DOMAIN events \cup {id} |->
                             IF e = id THEN doc ELSE events[e]]
             /\ procs' = [procs EXCEPT ![p] = Finish([q EXCEPT !.e = id], "ok")]
  /\ UNCHANGED <<regs, uploads, serial, mailer>>

\* a createEvent request that carries no customFields
CreateEvent(p, seatLimit, isFree, fee) ==
  CreateEventWith(p, seatLimit, isFree, fee, NoSchema)

\* event.path = value on the copy updateEvent read
SetEventPath(proc, path, value) ==
  [proc EXCEPT !.ev = [proc.ev EXCEPT ![path] = value],
               !.evmod = IF proc.ev[path] # value THEN proc.evmod \cup {path}
                         ELSE proc.evmod]

\* AfterUpdate that sets isFree and leaves the fee as it was
AfterUpdate_FeeKept(proc, seatLimit, isFree, fee) ==
  LET a == SetEventPath(proc, "seatLimit",
                        IF seatLimit # 0 THEN seatLimit ELSE proc.ev.seatLimit)
  IN IF isFree = "undefined" THEN a ELSE SetEventPath(a, "isFree", isFree = "true")

\* the assignments of updateEvent: seatLimit || event.seatLimit, and isFree
\* with its fee when isFree is sent
AfterUpdate(proc, seatLimit, isFree, fee) ==
  LET a == SetEventPath(proc, "seatLimit",
                        IF seatLimit # 0 THEN seatLimit ELSE proc.ev.seatLimit)
      b == SetEventPath(a, "isFree", isFree = "true")
  IN IF isFree = "undefined" THEN a
     ELSE SetEventPath(b, "fee",
            IF isFree = "false" THEN (IF fee # 0 THEN fee ELSE a.ev.fee) ELSE 0)

\* if (customFields !== undefined) event.customFields = the array sent, or
\* [] for anything else
AfterSchema(proc, customFields) ==
  IF customFields.sent = "undefined" THEN proc
  ELSE SetEventPath(proc, "customFields",
         IF customFields.sent = "array" THEN customFields.list ELSE <<>>)

\* updateEvent: Event.findById(id), the fee of a paid event, the assignments
UpdateEventStartWith(p, id, seatLimit, isFree, fee, customFields) ==
  /\ CanStart(p)
  /\ LET q == [IdleProc EXCEPT !.kind = "updateEvent", !.e = id]
     IN procs' = [procs EXCEPT ![p] =
          IF id \notin DOMAIN events THEN Finish(q, "notfound")
          ELSE IF FeeMissing(isFree, fee) THEN Finish(q, "nofee")
          ELSE IF customFields.sent = "array" /\ NamelessField(customFields.list)
            THEN Finish(q, "error")
          ELSE [AfterSchema(AfterUpdate([q EXCEPT !.ev = events[id]],
                                        seatLimit, isFree, fee), customFields)
                  EXCEPT !.pc = "save"]]
  /\ UNCHANGED <<events, regs, uploads, serial, mailer>>

\* an updateEvent request that carries no customFields
UpdateEventStart(p, id, seatLimit, isFree, fee) ==
  UpdateEventStartWith(p, id, seatLimit, isFree, fee, NoSchema)

\* await event.save() and the answer
UpdateEventSave(p) ==
  /\ procs[p].kind = "updateEvent" /\ procs[p].pc = "save"
  /\ LET q == procs[p]
     IN /\ events' = [events EXCEPT ![q.e] = SaveDoc(events[q.e], q.ev, q.evmod)]
        /\ procs' = [procs EXCEPT ![p] = Finish(q, "ok")]
  /\ UNCHANGED <<regs, uploads, serial, mailer>>

UpdateEvent ==
  \E p \in Slots :
    \/ \E id \in Events, seatLimit \in SeatLimits, isFree \in Flags, fee \in Fees :
         UpdateEventStart(p, id, seatLimit, isFree, fee)
    \/ UpdateEventSave(p)

EventAdmin ==
  \/ \E p \in Slots, seatLimit \in SeatLimits, isFree \in Flags, fee \in Fees :
       CreateEvent(p, seatLimit, isFree, fee)
  \/ UpdateEvent

\* an empty store, the organizer sends one request at a time
InitEvents ==
  /\ events = [e \in {} |-> NoEvent]
  /\ regs = <<>>
  /\ procs = [p \in Slots |-> IdleProc]
  /\ uploads = [r \in Refs |-> 0]
  /\ mailer = "up"
  /\ serial = TRUE

\* sequences of createEvent and updateEvent calls
SpecEvents == InitEvents /\ [][EventAdmin]_vars

\* createEvent and updateEvent requests that carry customFields
SchemaAdmin ==
  \E p \in Slots, seatLimit \in SeatLimits, isFree \in Flags, fee \in Fees,
     customFields \in SchemaInputs :
    \/ CreateEventWith(p, seatLimit, isFree, fee, customFields)
    \/ \E id \in Events :
         UpdateEventStartWith(p, id, seatLimit, isFree, fee, customFields)

NextSchema == SchemaAdmin \/ UpdateEvent

\* sequences of createEvent and updateEvent calls with custom field schemas
SpecSchema == InitEvents /\ [][NextSchema]_vars

NextUpdate == Next \/ UpdateEvent

\* the four operations while the organizer updates the events
SpecUpdate == Init /\ [][NextUpdate]_vars

\* --------------------------------------- upi-routes.js (placeholder variant)
\* Math.floor(100000 + Math.random() * 900000): two of the numbers it yields
RandomTickets == {100000, 999999}

\* POST /create-payment of upi-routes.js up to the seat check
UpiCreateStart(p, e, email) ==
  /\ CanStart(p)
  /\ LET ev == events[e]
         q == [IdleProc EXCEPT !.kind = "upicreate", !.e = e, !.email = email]
     IN procs' = [procs EXCEPT ![p] =
          IF ev.isFree THEN Finish(q, "free")
          ELSE IF ev.seatLimit - ev.registeredUsers <= 0 THEN Finish(q, "full")
          ELSE [q EXCEPT !.pc = "dupcheck"]]
  /\ UNCHANGED <<events, regs, uploads, serial, mailer>>

\* Registration.findOne({ email, eventId }): an existing registration ends
\* the request with 400
UpiCreateDupCheck(p) ==
  /\ procs[p].kind = "upicreate" /\ procs[p].pc = "dupcheck"
  /\ LET q == procs[p]
     IN procs' = [procs EXCEPT ![p] =
          IF FindByEmailEvent(q.email, q.e) # 0 THEN Finish(q, "dup")
          ELSE [q EXCEPT !.pc = "save"]]
  /\ UNCHANGED <<events, regs, uploads, serial, mailer>>

\* generatePaymentRefId, await pendingRegistration.save(), the payment details
UpiCreateSave(p) ==
  /\ procs[p].kind = "upicreate" /\ procs[p].pc = "save"
  /\ LET q == procs[p]
     IN \E ref \in Refs :
          /\ regs' = Append(regs, NewRegistration(q.e, q.email, "pending", ref))
          /\ procs' = [procs EXCEPT ![p] =
               FinishWith([q EXCEPT !.ref = ref], "ok", 0, Len(regs) + 1)]
  /\ UNCHANGED <<events, uploads, serial, mailer>>

UpiCreatePayment ==
  \E p \in Slots :
    \/ \E e \in Events, email \in Emails : UpiCreateStart(p, e, email)
    \/ UpiCreateDupCheck(p)
    \/ UpiCreateSave(p)

\* POST /verify-payment of upi-routes.js:
\* Registration.findOne({ paymentId: paymentRefId, email })
UpiVerifyStart(p, ref, email) ==
  /\ CanStart(p)
  /\ LET q == [IdleProc EXCEPT !.kind = "upiverify", !.ref = ref, !.email = email]
         found == FindByPaymentEmail(ref, email)
     IN procs' = [procs EXCEPT ![p] =
          IF found = 0 THEN Finish(q, "notfound")
          ELSE IF regs[found].paymentStatus = "completed"
            THEN FinishWith(q, "verified", 0, found)
          ELSE [q EXCEPT !.rid = found, !.doc = regs[found],
                         !.e = regs[found].eventId, !.pc = "event"]]
  /\ UNCHANGED <<events, regs, uploads, serial, mailer>>

\* Event.findById(registration.eventId); the registration is set completed
\* with a random ticketId and its QR image
UpiVerifyEvent(p) ==
  /\ procs[p].kind = "upiverify" /\ procs[p].pc = "event"
  /\ LET q == [procs[p] EXCEPT !.seen = events[procs[p].e].registeredUsers]
     IN \E t \in RandomTickets :
          procs' = [procs EXCEPT ![p] =
            [SetPath(SetPath(SetPath(q, "paymentStatus", "completed"),
                             "ticketId", t), "ticket", "qr")
               EXCEPT !.tid = t, !.pc = "save"]]
  /\ UNCHANGED <<events, regs, uploads, serial, mailer>>

\* await registration.save()
UpiVerifySave(p) ==
  /\ procs[p].kind = "upiverify" /\ procs[p].pc = "save"
  /\ LET q == procs[p]
     IN /\ regs' = [regs EXCEPT ![q.rid] = SaveDoc(regs[q.rid], q.doc, q.mod)]
        /\ procs' = [procs EXCEPT ![p] = [q EXCEPT !.pc = "count"]]
  /\ UNCHANGED <<events, uploads, serial, mailer>>

\* event.registeredUsers += 1, await event.save(); then
\* transporter.sendMail, which is not caught: a mail that fails ends the
\* request with 500
UpiVerifyCount(p) ==
  /\ procs[p].kind = "upiverify" /\ procs[p].pc = "count"
  /\ LET q == procs[p]
     IN /\ events' = [events EXCEPT ![q.e].registeredUsers = q.seen + 1]
        /\ procs' = [procs EXCEPT ![p] =
             IF mailer = "up" THEN FinishWith(SendEmail(q), "ok", q.tid, q.rid)
             ELSE Finish(SendEmail(q), "error")]
  /\ UNCHANGED <<regs, uploads, serial, mailer>>

UpiVerifyPayment ==
  \E p \in Slots :
    \/ \E ref \in Refs, email \in Emails : UpiVerifyStart(p, ref, email)
    \/ UpiVerifyEvent(p)
    \/ UpiVerifySave(p)
    \/ UpiVerifyCount(p)

NextUpi == UpiCreatePayment \/ UpiVerifyPayment \/ VerifyPayment

\* the payment routes of upi-routes.js and the organizer, one request at a
\* time
SpecSeqUpi == InitSeq /\ [][NextUpi]_vars

\* ------------------------------- custom field values: status and export
\* ticketId values a status query carries
TicketIds == 1..MaxReqs

\* Registration.findOne({ ticketId, email })
FindByTicketEmail(ticketId, email) ==
  LET S == {i \in RegIds : regs[i].ticketId = ticketId /\ regs[i].email = email}
  IN IF S = {} THEN 0 ELSE MinOf(S)

\* checkRegistrationStatus: Registration.findOne({ ticketId:
\* parseInt(ticketId, 10), email: email.trim().toLowerCase() })
StatusStart(p, ticketId, email) ==
  /\ CanStart(p)
  /\ LET q == [IdleProc EXCEPT !.kind = "status", !.email = email,
                               !.tid = ticketId]
         found == FindByTicketEmail(ticketId, Trim(ToLowerCase(email)))
     IN procs' = [procs EXCEPT ![p] =
          IF found = 0 THEN [Finish(q, "notfound") EXCEPT !.tid = ticketId]
          ELSE [q EXCEPT !.rid = found, !.doc = regs[found],
                         !.e = regs[found].eventId, !.pc = "event"]]
  /\ UNCHANGED <<events, regs, uploads, serial, mailer>>

\* Event.findById(registration.eventId), res.json({ ...registration.toObject(),
\* eventName, eventDate, eventVenue })
StatusEvent(p) ==
  /\ procs[p].kind = "status" /\ procs[p].pc = "event"
  /\ LET q == procs[p]
     IN procs' = [procs EXCEPT ![p] =
          IF q.e \notin DOMAIN events THEN [Finish(q, "noevent") EXCEPT !.tid = q.tid]
          ELSE [FinishWith(q, "ok", q.doc.ticketId, q.rid) EXCEPT
                  !.tid = q.tid, !.rFields = q.doc.customFieldValues]]
  /\ UNCHANGED <<events, regs, uploads, serial, mailer>>

CheckRegistrationStatus ==
  \E p \in Slots :
    \/ \E ticketId \in TicketIds, email \in Emails : StatusStart(p, ticketId, email)
    \/ StatusEvent(p)

\* the forms in which extractCustomFieldValue accepts customFieldValues
Shapes == {"map", "json", "object"}

\* extractCustomFieldValue(customFieldValues, fieldName)
ExtractCustomFieldValue(cfv, fieldName) ==
  LET value == Lookup(cfv.map, fieldName)
  IN IF cfv.shape = "map"
       THEN IF value \notin {"null", "undefined"} THEN value ELSE ""
     ELSE IF cfv.shape = "json"
       THEN IF value # "undefined" THEN value ELSE ""
     ELSE IF cfv.shape = "object"
       THEN IF value \notin {"null", "undefined"} THEN value ELSE ""
     ELSE ""

\* downloadEventRegistrations: Event.findById(eventId)
DownloadStart(p, e, fieldName) ==
  /\ CanStart(p)
  /\ LET q == [IdleProc EXCEPT !.kind = "download", !.e = e, !.field = fieldName]
     IN procs' = [procs EXCEPT ![p] =
          IF e \notin DOMAIN events THEN Finish(q, "noevent")
          ELSE [q EXCEPT !.pc = "rows"]]
  /\ UNCHANGED <<events, regs, uploads, serial, mailer>>

\* Registration.find({ eventId }), and for each registration the cell
\* rowData[key] = extractCustomFieldValue(registration.customFieldValues,
\* fieldName); the answer keeps the cell of one row
DownloadRows(p) ==
  /\ procs[p].kind = "download" /\ procs[p].pc = "rows"
  /\ LET q == procs[p]
         rows == {i \in RegIds : regs[i].eventId = q.e}
     IN IF rows = {}
        THEN procs' = [procs EXCEPT ![p] = Finish(q, "norows")]
        ELSE \E i \in rows, shape \in Shapes :
               procs' = [procs EXCEPT ![p] =
                 [FinishWith(q, "ok", regs[i].ticketId, i) EXCEPT
                    !.rCell = ExtractCustomFieldValue(
                                [shape |-> shape, map |-> regs[i].customFieldValues],
                                q.field)]]
  /\ UNCHANGED <<events, regs, uploads, serial, mailer>>

DownloadEventRegistrations ==
  \E p \in Slots :
    \/ \E e \in Events, fieldName \in Keys : DownloadStart(p, e, fieldName)
    \/ DownloadRows(p)

\* requests that carry customFieldValues
RegisterWithFields ==
  \E p \in Slots, e \in Events, email \in Emails, cf \in Payloads :
    RegisterStartWith(p, e, email, cf)

SubmitProofWithFields ==
  \E p \in Slots, ref \in Refs, email \in Emails, e \in Events, cf \in Payloads :
    SubmitProofStartWith(p, ref, email, e, TRUE, cf)

NextFields ==
  \/ Register
  \/ RegisterWithFields
  \/ CheckRegistrationStatus
  \/ DownloadEventRegistrations

\* registrations with custom field values, status queries and exports, one
\* request at a time
SpecFields == InitSeq /\ [][NextFields]_vars

NextProofFields == SubmitProof \/ SubmitProofWithFields

\* proof submissions with custom field values, one request at a time
SpecProofFields == InitSeq /\ [][NextProofFields]_vars

\* ------------------------------------------------------ backfill scripts
\* the fieldType of a custom field; "other" is any value outside the enum
FieldTypes == {"text", "email", "number", "date", "select", "checkbox", "other"}

\* the options of a custom field
OptionLists == {<<>>, <<"o1">>}

\* custom fields an event can hold
Fields == [fieldName : {<<"k">>}, fieldType : FieldTypes, options : OptionLists]

\* getDefaultValueForType(fieldType); "0" is the number 0, "false" the
\* boolean false, "today" the date of the run
GetDefaultValueForType(fieldType) ==
  CASE fieldType = "text" -> "Not provided"
    [] fieldType = "email" -> "Not provided"
    [] fieldType = "number" -> "0"
    [] fieldType = "date" -> "today"
    [] fieldType = "select" -> "Not selected"
    [] fieldType = "checkbox" -> "false"
    [] OTHER -> "Not provided"

\* the switch of fixSanitizedKeys: select takes the first option when the
\* field has options
SanitizedKeysDefault(field) ==
  IF field.fieldType = "select"
  THEN IF Len(field.options) > 0 THEN field.options[1] ELSE "Not selected"
  ELSE GetDefaultValueForType(field.fieldType)

\* the Map of defaults fixAllRegistrations builds from event.customFields
AllFieldsDefaults(list) ==
  {[k |-> list[i].fieldName, v |-> GetDefaultValueForType(list[i].fieldType)] :
     i \in DOMAIN list}

\* the Map of defaults fixSanitizedKeys builds from event.customFields
SanitizedKeysDefaults(list) ==
  {[k |-> list[i].fieldName, v |-> SanitizedKeysDefault(list[i])] :
     i \in DOMAIN list}

\* fixAllRegistrations, for one registration of an event with custom fields:
\* a missing or empty customFieldValues is replaced by the defaults and saved
FixAllRegistrations(i) ==
  /\ i \in RegIds
  /\ regs[i].eventId \in DOMAIN events
  /\ Len(events[regs[i].eventId].customFields) > 0
  /\ regs[i].customFieldsNull \/ regs[i].customFieldValues = {}
  /\ regs' = [regs EXCEPT ![i] =
       [@ EXCEPT !.customFieldValues =
                   AllFieldsDefaults(events[regs[i].eventId].customFields),
                 !.customFieldsNull = FALSE]]
  /\ UNCHANGED <<events, procs, uploads, serial, mailer>>

\* a key holds "_"
HasUnderscore(m) == \E x \in m : \E j \in DOMAIN x.k : x.k[j] = "_"

\* fixSanitizedKeys, for one registration of an event with custom fields: a
\* Map without a sanitized key is left alone, a customFieldValues that is no
\* Map is replaced by the defaults and saved
FixSanitizedKeys(i) ==
  /\ i \in RegIds
  /\ regs[i].eventId \in DOMAIN events
  /\ Len(events[regs[i].eventId].customFields) > 0
  /\ IF regs[i].customFieldsNull
     THEN regs' = [regs EXCEPT ![i] =
            [@ EXCEPT !.customFieldValues =
                        SanitizedKeysDefaults(events[regs[i].eventId].customFields),
                      !.customFieldsNull = FALSE]]
     ELSE /\ ~HasUnderscore(regs[i].customFieldValues)
          /\ UNCHANGED regs
  /\ UNCHANGED <<events, procs, uploads, serial, mailer>>

\* registrations the scripts find: with answers, with an empty Map, with null
StoredFields == {[map |-> {[k |-> <<"k">>, v |-> "v"]}, null |-> FALSE],
                 [map |-> {}, null |-> FALSE], [map |-> {}, null |-> TRUE]}

BackfillDoc(f) ==
  [NewRegistration("e1", <<"a">>, "completed", "") EXCEPT
     !.ticketId = 1, !.ticket = "qr", !.customFieldValues = f.map,
     !.customFieldsNull = f.null]

\* a store with an event that has one custom field and registrations for it
InitBackfill ==
  /\ \E field \in Fields :
       events = [e \in Events |->
         IF e = "e1"
         THEN [NewEvent(SeatLimit + 1, TRUE, 0) EXCEPT !.customFields = <<field>>,
                                                       !.registeredUsers = 2]
         ELSE NewEvent(SeatLimit, FALSE, 500)]
  /\ \E f, g \in StoredFields :
       regs = <<BackfillDoc(f), [BackfillDoc(g) EXCEPT !.ticketId = 2,
                                                       !.email = <<"b">>]>>
  /\ procs = [p \in Slots |-> IdleProc]
  /\ uploads = [r \in Refs |-> 0]
  /\ mailer = "up"
  /\ serial = TRUE

NextBackfill ==
  \E i \in RegIds : FixAllRegistrations(i) \/ FixSanitizedKeys(i)

\* runs of the backfill scripts on a store at rest
SpecBackfill == InitBackfill /\ [][NextBackfill]_vars

\* ------------------------------------------------------------------ faults
\* the mail service goes down or comes back
MailerFlips ==
  /\ mailer' = IF mailer = "up" THEN "down" ELSE "up"
  /\ UNCHANGED <<events, regs, procs, uploads, serial>>

NextMail == NextAll \/ MailerFlips

\* all requests, with a mail service that may fail
SpecMail == Init /\ [][NextMail]_vars

\* the store access a handler is waiting for throws: the catch block of the
\* handler answers 500, what was saved before stays
StoreFails(p) ==
  /\ InFlight(p)
  /\ procs' = [procs EXCEPT ![p] = Finish(procs[p], "error")]
  /\ UNCHANGED <<events, regs, uploads, serial, mailer>>

StoreFailure == \E p \in Slots : StoreFails(p)

NextStore == Next \/ StoreFailure

\* the four operations, one request at a time, with a store that may fail
SpecSeqStore == InitSeq /\ [][NextStore]_vars
\* ------------------------------------------------------------------ claims
Done(p) == procs[p].pc = "done"

RegsOf(e) == {i \in RegIds : regs[i].eventId = e}

\* requests of one kind that were answered with resp
Answered(kind, resp) ==
  {p \in Slots : procs[p].kind = kind /\ Done(p) /\ procs[p].resp = resp}

\* C1: in every reachable state and for every event, registeredUsers is at
\* most seatLimit (seatLimit is never changed in Spec).
C1_RegisteredWithinLimit ==
  \A e \in Events : events[e].registeredUsers <= events[e].seatLimit

\* the requests are registrations for the free event with pairwise distinct
\* e-mail addresses, nothing else was sent
OnlyDistinctRegistrations ==
  /\ \A p \in Slots : procs[p].kind \in {"idle", "register"}
  /\ \A p \in Slots : procs[p].kind = "register" => procs[p].e = "e1"
  /\ \A p, q \in Slots :
       (p # q /\ procs[p].kind = "register" /\ procs[q].kind = "register")
         => procs[p].email # procs[q].email

\* C2: when only registrations with distinct e-mails are sent to the free
\* event, with seatLimit = N, never more than N registrations exist, and once
\* 2N of them have been answered exactly N succeeded and N got "fully booked".
C2_ConcurrentRegistrations ==
  OnlyDistinctRegistrations =>
    /\ Cardinality(RegsOf("e1")) <= events["e1"].seatLimit
    /\ ((\A p \in Slots : Done(p)) /\ MaxReqs = 2 * events["e1"].seatLimit)
         => /\ Cardinality(Answered("register", "ok")) = events["e1"].seatLimit
            /\ Cardinality(Answered("register", "full")) = events["e1"].seatLimit

\* a request p is about to write (the Registration, then the counter) for a
\* first proof while its event has no seat left
WritesOnFullEvent(p) ==
  /\ procs[p].kind = "submit"
  /\ procs[p].pc \in {"save", "count"}
  /\ events[procs[p].e].registeredUsers >= events[procs[p].e].seatLimit

\* C3: a first proof submission for an event that is full (it came late, or
\* the event filled up while it ran) creates no Registration, does not
\* increment registeredUsers and is answered "fully booked".
C3_ProofOnFullEventRefused ==
  [][\A p \in Slots :
       (WritesOnFullEvent(p) /\ procs'[p] # procs[p])
         => /\ regs' = regs
            /\ events' = events
            /\ procs'[p].resp = "full"]_vars

\* C4: for every (eventId, email) pair at most one Registration exists.
C4_OneRegistrationPerEmail ==
  \A i, j \in RegIds :
    (regs[i].eventId = regs[j].eventId /\ regs[i].email = regs[j].email) => i = j

\* C5: no two Registrations of the same event hold the same allocated
\* ticketId (0 is the schema default of a registration without a ticket).
C5_TicketIdsUnique ==
  \A i, j \in RegIds :
    (/\ regs[i].eventId = regs[j].eventId
     /\ regs[i].ticketId # 0
     /\ regs[i].ticketId = regs[j].ticketId) => i = j

\* C6: when a proof submission was answered with success, a later submission
\* with the same payment reference and e-mail uploads nothing, creates and
\* counts nothing (it never gets past the stored-proof test) and is answered
\* with the same ticketId and registrationId.
C6_ProofSubmissionIdempotent ==
  \A p, q \in Slots :
    (/\ p < q
     /\ procs[p].kind = "submit" /\ Done(p) /\ procs[p].resp = "ok"
     /\ procs[q].kind = "submit"
     /\ procs[q].ref = procs[p].ref /\ procs[q].email = procs[p].email)
      => /\ procs[q].pc \notin {"ticket", "save", "count"}
         /\ Done(q) => /\ procs[q].rTicket = procs[p].rTicket
                       /\ procs[q].rReg = procs[p].rReg

\* C7: every Registration with paymentStatus = completed has a ticketId
\* (not 0) and a ticket image.
C7_CompletedHasTicket ==
  \A i \in RegIds :
    regs[i].paymentStatus = "completed"
      => regs[i].ticketId # 0 /\ regs[i].ticket # ""

\* a registration that verifyPayment completed, one that registerForEvent
\* completed
C7_Witness ==
  /\ \E i \in RegIds :
       regs[i].paymentStatus = "completed" /\ regs[i].paymentVerified
  /\ \E p \in Slots : procs[p].kind = "verify" /\ Done(p) /\ procs[p].resp = "ok"

\* C8 as claimed: a Registration with paymentStatus = pending has no ticketId.
C8_PendingHasNoTicket ==
  \A i \in RegIds : regs[i].paymentStatus = "pending" => regs[i].ticketId = 0

\* C8 as amended: a pending Registration has a ticketId only when its payment
\* proof is stored (the number is allocated at proof submission); a pending
\* Registration without a stored proof has none.
C8_PendingTicketOnlyWithProof ==
  \A i \in RegIds :
    (regs[i].paymentStatus = "pending" /\ regs[i].paymentScreenshot = "")
      => regs[i].ticketId = 0

\* a pending registration that got its ticketId with its proof
C8_Witness ==
  \E i \in RegIds :
    /\ regs[i].paymentStatus = "pending"
    /\ regs[i].ticketId # 0
    /\ regs[i].paymentScreenshot # ""

\* two requests created a Registration each
Created(p) ==
  procs[p].kind \in {"register", "submit"} /\ Done(p) /\ procs[p].resp = "ok"

\* C9: once an e-mail is registered for an event, a later register or proof
\* submission for that event with the same e-mail in another letter case
\* creates no second Registration.
C9_EmailCaseInsensitive ==
  \A p, q \in Slots :
    (/\ p < q /\ Created(p) /\ Created(q)
     /\ procs[p].e = procs[q].e
     /\ procs[p].email # procs[q].email)
      => ToLowerCase(procs[p].email) # ToLowerCase(procs[q].email)

\* C10: a proof submission that found no Registration for its payment
\* reference does not insert one when the e-mail is already registered for
\* the event.
C10_ProofAppliesDuplicateGuard ==
  \A p \in Slots :
    (procs[p].kind = "submit" /\ procs[p].pc = "count")
      => \A i \in RegIds \ {procs[p].rid} :
           ~(/\ regs[i].eventId = regs[procs[p].rid].eventId
             /\ regs[i].email = regs[procs[p].rid].email)

\* C11: register on a paid event is answered at once with the
\* payment-required response carrying the fee of the event; no Registration is
\* created and no event is changed.
C11_RegisterOnPaidEvent ==
  [][\A p \in Slots :
       (/\ procs[p].pc = "idle"
        /\ procs'[p].kind = "register"
        /\ ~events[procs'[p].e].isFree)
         => /\ procs'[p].pc = "done"
            /\ procs'[p].resp = "paid"
            /\ procs'[p].rFee = events[procs'[p].e].fee
            /\ regs' = regs
            /\ events' = events]_vars

\* a register call for the paid event was answered with the fee
C11_Witness ==
  \E p \in Slots :
    /\ procs[p].kind = "register" /\ Done(p)
    /\ procs[p].e = "e2" /\ procs[p].resp = "paid" /\ procs[p].rFee = 500
    /\ regs = <<>>

\* the requests that created a Registration for event e and were answered
Successes(e) ==
  {p \in Slots : Created(p) /\ procs[p].e = e}

\* C12: with requests served one at a time, a register call for a free event
\* that was answered with success created exactly one Registration, with
\* paymentStatus = completed, and one seat was counted for it; a call is
\* refused with "fully booked" only when no seat remains, with the duplicate
\* conflict only when the e-mail is registered, and a refused call creates
\* nothing.  With seatLimit = 1 the first call gets ticketId 1 and a second
\* call with another e-mail is refused.
C12_RegisterOnFreeEvent ==
  /\ \A p \in Slots :
       (procs[p].kind = "register" /\ Done(p) /\ events[procs[p].e].isFree)
         => \/ /\ procs[p].resp = "ok"
               /\ procs[p].rReg \in RegIds
               /\ regs[procs[p].rReg].eventId = procs[p].e
               /\ regs[procs[p].rReg].email = procs[p].email
               /\ regs[procs[p].rReg].paymentStatus = "completed"
               /\ regs[procs[p].rReg].ticketId = procs[p].rTicket
               /\ procs[p].rTicket # 0
            \/ /\ procs[p].resp = "full"
               /\ events[procs[p].e].registeredUsers >= events[procs[p].e].seatLimit
            \/ /\ procs[p].resp = "dup"
               /\ FindByEmailEvent(procs[p].email, procs[p].e) # 0
  /\ (\A p \in Slots : ~InFlight(p))
       => \A e \in Events :
            /\ Cardinality(RegsOf(e)) = Cardinality(Successes(e))
            /\ events[e].registeredUsers = Cardinality(Successes(e))
  /\ \A p, q \in Slots :
       (/\ p = 1 /\ q = 2
        /\ procs[p].kind = "register" /\ procs[q].kind = "register"
        /\ procs[p].e = "e1" /\ procs[q].e = "e1"
        /\ procs[p].email # procs[q].email
        /\ events["e1"].seatLimit = 1
        /\ Done(p) /\ Done(q))
         => /\ procs[p].resp = "ok" /\ procs[p].rTicket = 1
            /\ procs[q].resp = "full"

\* scenario A: the first registration has ticket 1, the second is refused
C12_Witness ==
  /\ events["e1"].seatLimit = 1
  /\ procs[1].kind = "register" /\ procs[1].e = "e1"
  /\ procs[1].resp = "ok" /\ procs[1].rTicket = 1
  /\ procs[2].kind = "register" /\ procs[2].e = "e1"
  /\ procs[2].email # procs[1].email
  /\ procs[2].resp = "full"
  /\ Len(regs) = 1 /\ events["e1"].registeredUsers = 1

\* C13: when the same e-mail registers twice for the same free event, one
\* call after the other, the second call is answered with the
\* duplicate-registration conflict.
C13_SecondRegisterIsDuplicate ==
  \A p, q \in Slots :
    (/\ p < q
     /\ procs[p].kind = "register" /\ Done(p) /\ procs[p].resp = "ok"
     /\ procs[q].kind = "register" /\ Done(q)
     /\ procs[q].e = procs[p].e /\ procs[q].email = procs[p].email)
      => procs[q].resp = "dup"

\* C14: register for a paid event with an e-mail that a proof submission
\* already registered for that event is answered with the
\* duplicate-registration conflict, not with the payment-required response.
C14_DuplicateOnPaidEvent ==
  \A p, q \in Slots :
    (/\ p < q
     /\ procs[p].kind = "submit" /\ Done(p) /\ procs[p].resp = "ok"
     /\ procs[q].kind = "register" /\ Done(q)
     /\ procs[q].e = procs[p].e /\ ~events[procs[q].e].isFree
     /\ procs[q].email = Trim(ToLowerCase(procs[p].email)))
      => procs[q].resp = "dup"

\* C15: with requests served one at a time, the save of verifyPayment(id,
\* true) leaves the Registration completed and payment-verified, keeps a
\* ticketId that was allocated before the call, and allocates one only when
\* there was none.
C15_VerifyCompletes ==
  [][\A p \in Slots :
       (/\ procs[p].kind = "verify" /\ procs[p].pc = "save"
        /\ procs[p].verified
        /\ procs'[p].pc = "done" /\ procs'[p].resp = "ok")
         => LET i == procs[p].rid
            IN /\ regs'[i].paymentStatus = "completed"
               /\ regs'[i].paymentVerified
               /\ regs[i].ticketId # 0 => regs'[i].ticketId = regs[i].ticketId
               /\ regs[i].ticketId = 0 => regs'[i].ticketId # 0
               /\ procs'[p].rTicket = regs'[i].ticketId]_vars

\* a proof submission allocated the ticket, the organizer then verified the
\* payment: the registration is completed with the ticket of the submission
C15_Witness ==
  \E p, q \in Slots :
    /\ procs[q].kind = "submit" /\ Done(q) /\ procs[q].resp = "ok"
    /\ procs[p].kind = "verify" /\ Done(p) /\ procs[p].resp = "ok"
    /\ procs[p].verified
    /\ procs[p].rid = procs[q].rReg
    /\ regs[procs[p].rid].paymentStatus = "completed"
    /\ regs[procs[p].rid].paymentVerified
    /\ regs[procs[p].rid].ticketId = procs[q].rTicket

\* C16: with requests served one at a time, verifyPayment(id, false) leaves
\* paymentVerified = false and writes nothing else: paymentStatus, ticketId and every other field of the
\* Registration, the other Registrations and the events are as before.
C16_RejectionKeepsTheRest ==
  [][\A p \in Slots :
       (/\ procs[p].kind = "verify" /\ ~procs[p].verified
        /\ procs[p].pc \in {"idle", "issue", "save"}
        /\ procs'[p] # procs[p] /\ procs'[p].kind = "verify")
         => /\ events' = events
            /\ procs[p].pc # "issue"
            /\ procs[p].pc = "idle" => regs' = regs
            /\ procs[p].pc = "save" =>
                 regs' = [regs EXCEPT ![procs[p].rid].paymentVerified = FALSE]]_vars

\* the organizer rejected a payment whose proof was submitted: the
\* registration is still pending and has the ticket of the submission
C16_Witness ==
  \E p, q \in Slots :
    /\ procs[q].kind = "submit" /\ Done(q) /\ procs[q].resp = "ok"
    /\ procs[p].kind = "verify" /\ Done(p) /\ procs[p].resp = "ok"
    /\ ~procs[p].verified
    /\ procs[p].rid = procs[q].rReg
    /\ regs[procs[p].rid].paymentStatus = "pending"
    /\ ~regs[procs[p].rid].paymentVerified
    /\ regs[procs[p].rid].ticketId = procs[q].rTicket
    /\ events[procs[q].e].registeredUsers = 1

\* the answers of a proof submission that failed before its commit
ProofFailures == {"noshot", "badshot", "uploadfail"}

\* C17: a proof submission is turned down for its image (missing, not an
\* image, not stored by the blob store) only before it has written anything:
\* up to and including the step that answers, no Registration is created or
\* changed (so no ticket number is taken) and no event is changed.
C17_FailedProofPersistsNothing ==
  [][\A p \in Slots :
       (procs'[p] # procs[p] /\ procs'[p].kind = "submit")
         => /\ procs[p].pc \in {"idle", "event"}
                 => regs' = regs /\ events' = events
            /\ procs'[p].resp \in ProofFailures
                 => /\ procs[p].pc \in {"idle", "event"}
                    /\ uploads' = uploads]_vars

\* a submission failed on its upload and the store is as it was created
C17_Witness ==
  /\ \E p \in Slots :
       procs[p].kind = "submit" /\ Done(p) /\ procs[p].resp = "uploadfail"
  /\ regs = <<>>
  /\ \A e \in Events : events[e].registeredUsers = 0
  /\ \A r \in Refs : uploads[r] = 0

\* no request is being served
Quiet == \A p \in Slots : ~InFlight(p)

\* C18: with a store that may fail and requests served one at a time, once
\* every request is answered no Registration is persisted without its seat
\* being counted: an event has at least as many counted seats as
\* Registrations.
C18_NoUncountedRegistration ==
  Quiet => \A e \in Events : Cardinality(RegsOf(e)) <= events[e].registeredUsers

\* C19: a request whose mail could not be sent is answered with success, and
\* what it wrote is in the store: the Registration of a register or proof
\* submission with its ticket and a counted seat, the completed status of a
\* verified payment.
C19_MailFailureKeepsSuccess ==
  \A p \in Slots :
    (Done(p) /\ procs[p].mail = "failed")
      => /\ procs[p].resp = "ok"
         /\ procs[p].kind \in {"register", "submit"}
              => /\ procs[p].rReg \in RegIds
                 /\ regs[procs[p].rReg].eventId = procs[p].e
                 /\ regs[procs[p].rReg].ticketId = procs[p].rTicket
                 /\ events[procs[p].e].registeredUsers >= 1
         /\ procs[p].kind = "verify"
              => /\ regs[procs[p].rid].paymentStatus = "completed"
                 /\ regs[procs[p].rid].ticketId # 0
                 /\ regs[procs[p].rid].ticket # ""

\* the mail of a verification and the mail of a registration failed, both
\* requests were answered with success
C19_Witness ==
  /\ \E p \in Slots :
       /\ procs[p].kind = "verify" /\ Done(p) /\ procs[p].verified
       /\ procs[p].mail = "failed" /\ procs[p].resp = "ok"
       /\ regs[procs[p].rid].paymentVerified
  /\ \E p \in Slots :
       /\ procs[p].kind \in {"register", "submit"} /\ Done(p)
       /\ procs[p].mail = "failed" /\ procs[p].resp = "ok"

\* the registrations of e that are completed free registrations or
\* payment-verified paid registrations
VerifiedRegs(e) ==
  {i \in RegsOf(e) :
     \/ regs[i].paymentId = "" /\ regs[i].paymentStatus = "completed"
     \/ regs[i].paymentId # "" /\ regs[i].paymentVerified}

\* the registrations of e that are completed free registrations or paid
\* registrations whose payment proof is stored, verified or not
SeatedRegs(e) ==
  {i \in RegsOf(e) :
     \/ regs[i].paymentId = "" /\ regs[i].paymentStatus = "completed"
     \/ regs[i].paymentId # "" /\ regs[i].paymentScreenshot # ""}

C24_UpdateKeepsRegistrations ==
  [][\A p \in Slots :
       (procs'[p] # procs[p] /\ procs'[p].kind = "updateEvent")
         => /\ regs' = regs
            /\ \A e \in Events :
                 events'[e].registeredUsers = events[e].registeredUsers
            /\ \A e \in Events \ {procs'[p].e} : events'[e] = events[e]]_vars

\* the capacity of an event with a registration was changed
C24_Witness ==
  \E p \in Slots :
    /\ procs[p].kind = "updateEvent" /\ Done(p) /\ procs[p].resp = "ok"
    /\ events[procs[p].e].seatLimit # SeatLimit
    /\ events[procs[p].e].registeredUsers = 1
    /\ \E i \in RegIds : regs[i].eventId = procs[p].e /\ regs[i].ticketId = 1

\* the ticket numbers allocated for event e
TicketsOf(e) == {regs[i].ticketId : i \in RegsOf(e)} \ {0}

\* C22: with requests served one at a time and no failure, the ticket numbers
\* allocated for an event are the range 1..k, no number is held twice, and
\* of two registrations or proof submissions for the same event the later one
\* got the greater number.
C22_TicketsContiguous ==
  /\ \A e \in Events :
       /\ TicketsOf(e) = 1..Cardinality(TicketsOf(e))
       /\ Cardinality({i \in RegsOf(e) : regs[i].ticketId # 0})
            = Cardinality(TicketsOf(e))
  /\ \A p, q \in Slots :
       (p < q /\ Created(p) /\ Created(q) /\ procs[p].e = procs[q].e)
         => procs[p].rTicket < procs[q].rTicket

\* two requests for one event were given the tickets 1 and 2, in this order
C22_Witness ==
  \E e \in Events, p, q \in Slots :
    /\ TicketsOf(e) = {1, 2}
    /\ p < q /\ Created(p) /\ Created(q)
    /\ procs[p].e = e /\ procs[q].e = e
    /\ procs[p].rTicket = 1 /\ procs[q].rTicket = 2

C27_MailAfterCommit ==
  \A p \in Slots : procs[p].mail = "sent" => Done(p)

\* C26: a Registration of a paid event gets paymentStatus = completed only
\* by the save of a verifyPayment call with verified = true; every other step
\* leaves it as it was or pending.
C26_CompletedOnlyByOrganizer ==
  [][\A i \in 1..Len(regs') :
       (/\ ~events[regs'[i].eventId].isFree
        /\ regs'[i].paymentStatus = "completed"
        /\ (i > Len(regs) \/ regs[i].paymentStatus # "completed"))
         => \E p \in Slots :
              /\ procs[p].kind = "verify" /\ procs[p].verified
              /\ procs[p].pc = "save" /\ procs[p].rid = i
              /\ procs'[p].pc = "done"]_vars

\* C29: when the placeholder variant of create-payment has stored a pending
\* Registration for an attendee, a second create-payment call of the same
\* attendee for the same event succeeds and there is still one Registration
\* for them.
C29_PlaceholderReused ==
  \A p, q \in Slots :
    (/\ p < q
     /\ procs[p].kind = "upicreate" /\ Done(p) /\ procs[p].resp = "ok"
     /\ procs[q].kind = "upicreate" /\ Done(q)
     /\ procs[q].e = procs[p].e /\ procs[q].email = procs[p].email)
      => /\ procs[q].resp = "ok"
         /\ Cardinality({i \in RegIds : /\ regs[i].eventId = procs[p].e
                                        /\ regs[i].email = procs[p].email}) = 1

\* C25: when a register call that carried a customFieldValues map has
\* succeeded, a later status query with the ticketId it answered and the
\* same email finds the registration and returns that map: the same keys
\* (a key with "." included) and the same values.
C25_FieldsReturnedVerbatim ==
  \A p, q \in Slots :
    (/\ p < q
     /\ procs[p].kind = "register" /\ Done(p) /\ procs[p].resp = "ok"
     /\ procs[p].cf.shape \in {"object", "json"}
     /\ procs[q].kind = "status" /\ Done(q)
     /\ procs[q].tid = procs[p].rTicket /\ procs[q].email = procs[p].email)
      => /\ procs[q].resp = "ok"
         /\ procs[q].rFields = procs[p].cf.map

\* C28: when a proof submission whose custom-field answers are a string that
\* is no JSON has created a Registration, that Registration's
\* customFieldValues hold the marker entry and are not the empty map.
C28_BadJsonLeavesMarker ==
  \A p \in Slots :
    (/\ procs[p].kind = "submit" /\ Done(p) /\ procs[p].resp = "ok"
     /\ procs[p].cf.shape = "badjson"
     /\ \A q \in Slots : q < p => procs[q].kind # "submit")
      => regs[procs[p].rReg].customFieldValues = FormatNote

\* C30: in an export, the cell of a custom field for which the row's
\* registration holds no value is "N/A", whether the values come as a map,
\* a JSON string or an object.
C30_MissingValueIsNA ==
  \A p \in Slots :
    (/\ procs[p].kind = "download" /\ Done(p) /\ procs[p].resp = "ok"
     /\ Lookup(regs[procs[p].rReg].customFieldValues, procs[p].field)
          = "undefined")
      => procs[p].rCell = "N/A"

\* C31: after any sequence of createEvent and updateEvent calls, the field
\* names of every event's custom field schema are non-empty and pairwise
\* distinct.
C31_FieldNamesDistinct ==
  \A e \in DOMAIN events :
    LET list == events[e].customFields
    IN /\ \A i \in DOMAIN list : list[i].fieldName # <<>>
       /\ \A i, j \in DOMAIN list : list[i].fieldName = list[j].fieldName => i = j

\* the default the specification gives for a field type
SentinelFor(fieldType) ==
  CASE fieldType \in {"text", "email"} -> "Not provided"
    [] fieldType = "number" -> "0"
    [] fieldType = "select" -> "Not selected"
    [] fieldType = "checkbox" -> "false"

\* C32: whichever backfill script writes the defaults of a registration,
\* the value it writes for a field of type text or email is "Not provided",
\* for number 0, for select "Not selected" whatever the options of the
\* field, for checkbox false.
C32_SameDefaults ==
  [][\A i \in RegIds :
       regs'[i].customFieldValues # regs[i].customFieldValues
         => LET list == events[regs[i].eventId].customFields
            IN \A j \in DOMAIN list :
                 list[j].fieldType \in {"text", "email", "number", "select", "checkbox"}
                   => Lookup(regs'[i].customFieldValues, list[j].fieldName)
                        = SentinelFor(list[j].fieldType)]_vars

\* C33: once a Registration has an allocated ticketId, no step of any
\* operation changes it.
C33_TicketIdKept ==
  [][\A i \in RegIds : regs[i].ticketId # 0 => regs'[i].ticketId = regs[i].ticketId]_vars

C36_VerifiedIsCompleted ==
  \A i \in RegIds : regs[i].paymentVerified => regs[i].paymentStatus = "completed"

\* the organizer has accepted the payment of a pending registration
C36_Witness ==
  \E p \in Slots :
    /\ procs[p].kind = "verify" /\ Done(p) /\ procs[p].verified
    /\ procs[p].rid \in RegIds
    /\ regs[procs[p].rid].paymentId = "TEST"
    /\ regs[procs[p].rid].paymentVerified

\* C35: when no request is in flight, registeredUsers of every event is the
\* number of its Registrations, each of which took a seat by a free register
\* or an accepted payment proof, also after requests that overlapped.
C35_NoLostIncrement ==
  Quiet => \A e \in Events : Cardinality(RegsOf(e)) = events[e].registeredUsers

\* C37: no two Registrations with an allocated ticketId hold the same
\* (ticketId, email) pair, so that a status query identifies at most one,
\* also when the e-mail is registered for two events.
C37_TicketEmailUnique ==
  \A i, j \in RegIds :
    (/\ regs[i].ticketId # 0
     /\ regs[i].ticketId = regs[j].ticketId
     /\ regs[i].email = regs[j].email) => i = j

\* C38: the Registration a register call created with e-mail e and ticketId t
\* is the one a later status query with t and e finds, whatever the letter
\* case of e.
C38_RegisteredIsFound ==
  \A p, q \in Slots :
    (/\ p < q
     /\ procs[p].kind = "register" /\ Done(p) /\ procs[p].resp = "ok"
     /\ procs[q].kind = "status" /\ Done(q)
     /\ procs[q].tid = procs[p].rTicket /\ procs[q].email = procs[p].email)
      => procs[q].resp = "ok" /\ procs[q].rReg = procs[p].rReg

\* C39: a proof submission that created a Registration carries a payment
\* reference that an earlier createPendingPayment call issued for the same
\* event and e-mail.
C39_ProofNeedsIssuedRef ==
  \A p \in Slots :
    (procs[p].kind = "submit" /\ Created(p))
      => \E q \in Slots :
           /\ q < p
           /\ procs[q].kind = "create" /\ Done(q) /\ procs[q].resp = "ok"
           /\ procs[q].ref = procs[p].ref
           /\ procs[q].e = procs[p].e /\ procs[q].email = procs[p].email
====
